---- MODULE Spec2Model ----
(***************************************************************************)
(* Model of bon-macros' per-member classification and typestate            *)
(* derivation (builder/builder_gen/field.rs).                              *)
(*                                                                         *)
(* A syn::Type is modelled as the sequence of its nested type constructors *)
(* (every generic involved is unary): u32 is <<"u32">>, Option<u32> is     *)
(* <<"Option", "u32">>.  A TokenStream produced by quote! is modelled the  *)
(* same way: bon::private::Set<Option<u32>> is                             *)
(* <<"bon::private::Set", "Option", "u32">>.                               *)
(* A Rust Option is a sequence of length at most one, a Rust Result a      *)
(* record tagged "Ok" or "Err".                                            *)
(***************************************************************************)
EXTENDS Naturals, Sequences, FiniteSets

VARIABLES
    pc,        \* position of the translation pass over one declaration
    origin,    \* FieldOrigin of the declaration's members
    members,   \* the Fields that Field::new has returned so far
    last,      \* the most recent Field::new call: its input and its Result
    slots,     \* the builder's per-member typestate slots
    probe,     \* a Field record the type derivers are applied to directly
    answer     \* the results of the derivers on probe

vars == <<pc, origin, members, last, slots, probe, answer>>

(***************************** bounds **************************************)

\* members per declaration
MaxMembers == 2

\* nesting depth of Option<...> in a declared type
MaxDepth == 1

(***************************** Rust values *********************************)

None == <<>>

Some(v) == <<v>>

is_some(o) == o # <<>>

unwrap(o) == o[1]

Ok(v) == [tag |-> "Ok", val |-> <<v>>, errs |-> <<>>]

Err(e) == [tag |-> "Err", val |-> <<>>, errs |-> e]

Diag(kind, span, arg) == [kind |-> kind, span |-> span, arg |-> arg]

(***************************** inputs **************************************)

FieldOrigin == {"FnArg", "StructField"}

BaseTypes == {<<"bool">>, <<"u32">>}

RECURSIVE TypesUpTo(_)
TypesUpTo(d) ==
    IF d = 0 THEN BaseTypes
    ELSE TypesUpTo(d - 1) \cup {<<"Option">> \o t : t \in TypesUpTo(d - 1)}

Types == TypesUpTo(MaxDepth)

\* identifier of the member at position i of the declaration
Ident(i) == IF i % 2 = 1 THEN <<"x", "1">> ELSE <<"m", "y", "_", "f", "l", "a", "g">>

\* surface forms of one meta item: a bare word, a list, or `= value`
MetaPath == [shape |-> "Path", value |-> "-"]

MetaList == [shape |-> "List", value |-> "-"]

MetaNameValue(v) == [shape |-> "NameValue", value |-> v]

Absent == [shape |-> "Absent", value |-> "-"]

IntoForms == {Absent, MetaPath, MetaNameValue("true"), MetaNameValue("false")}

DefaultForms == {Absent, MetaPath, MetaList, MetaNameValue("2 + 2")}

RequiredForms == {Absent, MetaPath}

DocForms == {"text", "link to Self"}

DocAttr(text) == [kind |-> "doc", key |-> "doc", meta |-> MetaNameValue(text)]

BuilderAttr(key, meta) == [kind |-> "builder", key |-> key, meta |-> meta]

\* the attribute list of one member: a doc comment followed by the
\* #[builder(...)] items that are written
Attrs(doc, into, default, required) ==
    <<DocAttr(doc)>>
    \o (IF into = Absent THEN <<>> ELSE <<BuilderAttr("into", into)>>)
    \o (IF default = Absent THEN <<>> ELSE <<BuilderAttr("default", default)>>)
    \o (IF required = Absent THEN <<>> ELSE <<BuilderAttr("required", required)>>)

AttrLists ==
    {Attrs(d, i, f, r) : d \in DocForms, i \in IntoForms,
                         f \in DefaultForms, r \in RequiredForms}

(***************************** syn / prox helpers **************************)

is_option(ty) == Head(ty) = "Option"

is_bool(ty) == ty = <<"bool">>

option_type_param(ty) == IF is_option(ty) THEN Some(Tail(ty)) ELSE None

Upper(c) ==
    CASE c = "x" -> "X" [] c = "m" -> "M" [] c = "y" -> "Y" [] c = "f" -> "F"
      [] c = "l" -> "L" [] c = "a" -> "A" [] c = "g" -> "G" [] OTHER -> c

RECURSIVE PascalFrom(_, _)
PascalFrom(s, up) ==
    IF s = <<>> THEN <<>>
    ELSE IF Head(s) = "_" THEN PascalFrom(Tail(s), TRUE)
    ELSE <<IF up THEN Upper(Head(s)) ELSE Head(s)>> \o PascalFrom(Tail(s), FALSE)

to_pascal_case(ident) == PascalFrom(ident, TRUE)

is_doc(attr) == attr.kind = "doc"

\* attrs.iter().filter(|attr| attr.is_doc()), in the original order
RECURSIVE FilterDocs(_)
FilterDocs(s) ==
    IF s = <<>> THEN <<>>
    ELSE (IF is_doc(Head(s)) THEN <<Head(s)>> ELSE <<>>) \o FilterDocs(Tail(s))

reject_self_references_in_docs(docs) ==
    IF \E i \in 1..Len(docs) : docs[i].meta.value = "link to Self"
    THEN Err(<<Diag("SelfReferentialDoc", "doc", "-")>>)
    ELSE Ok("unit")

(***************************** StrictBool **********************************)

StrictBool(value) == [value |-> value]

from_word == Ok(StrictBool(TRUE))

\* mutant: `= true` is accepted
from_bool_accepting_true(value) == Ok(StrictBool(value))

from_bool(value) ==
    IF ~value THEN Ok(StrictBool(FALSE))
    ELSE Err(<<Diag("RedundantTrueLiteral", "into", "remove = true")>>)

\* darling's FromMeta::from_meta dispatch for StrictBool
StrictBool_from_meta(meta) ==
    IF meta.shape = "Path" THEN from_word
    ELSE from_bool(meta.value = "true")

parse_optional_expression(meta) ==
    CASE meta.shape = "Path" -> Ok(None)
      [] meta.shape = "List" -> Err(<<Diag("UnsupportedAnnotationShape", "default", "list")>>)
      [] OTHER -> Ok(Some(meta.value))

(***************************** FieldParams *********************************)

\* the meta written for key in a member's #[builder(...)] attributes
MetaOf(attrs, key) ==
    IF \E i \in 1..Len(attrs) : attrs[i].kind = "builder" /\ attrs[i].key = key
    THEN (CHOOSE a \in {attrs[i] : i \in 1..Len(attrs)} :
              a.kind = "builder" /\ a.key = key).meta
    ELSE Absent

FieldParams(into, default, required) ==
    [into |-> into, default |-> default, required |-> required]

\* #[derive(FromAttributes)]: every field is parsed, the errors of the
\* failing fields are accumulated in declaration order
FieldParams_from_attributes(attrs) ==
    LET intoMeta == MetaOf(attrs, "into")
        defaultMeta == MetaOf(attrs, "default")
        requiredMeta == MetaOf(attrs, "required")
        intoRes == IF intoMeta = Absent THEN Ok(None)
                   ELSE LET r == StrictBool_from_meta(intoMeta)
                        IN  IF r.tag = "Ok" THEN Ok(Some(unwrap(r.val))) ELSE r
        defaultRes == IF defaultMeta = Absent THEN Ok(None)
                      ELSE LET r == parse_optional_expression(defaultMeta)
                           IN  IF r.tag = "Ok" THEN Ok(Some(unwrap(r.val))) ELSE r
        required == IF requiredMeta = Absent THEN None ELSE Some("Flag")
        errs == intoRes.errs \o defaultRes.errs
    IN  IF errs # <<>> THEN Err(errs)
        ELSE Ok(FieldParams(unwrap(intoRes.val), unwrap(defaultRes.val), required))

(***************************** Field ***************************************)

Field(org, ident, docs, ty, params) ==
    [origin |-> org,
     ident |-> ident,
     docs |-> docs,
     ty |-> ty,
     state_assoc_type_ident |-> to_pascal_case(ident),
     params |-> params]

\* mutant: bool is not recognised as implying a default
inferred_type_name_option_only(ty) ==
    IF is_option(ty) THEN Some("Option") ELSE None

\* the `ty` of validate's first block: the name of the type when it already
\* implies #[builder(default)]
inferred_type_name(ty) ==
    IF is_option(ty) THEN Some("Option")
    ELSE IF is_bool(ty) THEN Some("bool")
    ELSE None

\* if let Some(default) = &self.params.default { ... }
check_default(self) ==
    IF is_some(self.params.default) /\ is_some(inferred_type_name(self.ty))
    THEN Err(<<Diag("RedundantDefault", "default", unwrap(inferred_type_name(self.ty)))>>)
    ELSE Ok("unit")

\* mutant: `required` is accepted on every type that is not Option<...>
check_required_any_type(self) ==
    IF ~is_some(self.params.required) THEN Ok("unit")
    ELSE IF is_option(self.ty)
    THEN Err(<<Diag("RequiredOnOptionalWrapper", "required", "-")>>)
    ELSE IF is_some(self.params.default)
    THEN Err(<<Diag("RequiredDefaultConflict", "required", "-")>>)
    ELSE Ok("unit")

\* if let Some(required) = &self.params.required { ... }
check_required(self) ==
    IF ~is_some(self.params.required) THEN Ok("unit")
    ELSE IF is_option(self.ty)
    THEN Err(<<Diag("RequiredOnOptionalWrapper", "required", "-")>>)
    ELSE IF ~is_bool(self.ty)
    THEN Err(<<Diag("RequiredOnNonBoolean", "required", "-")>>)
    ELSE IF is_some(self.params.default)
    THEN Err(<<Diag("RequiredDefaultConflict", "required", "-")>>)
    ELSE Ok("unit")

\* mutant: the `required` block runs before the `default` block
validate_required_first(self) ==
    IF reject_self_references_in_docs(self.docs).tag = "Err"
    THEN reject_self_references_in_docs(self.docs)
    ELSE IF check_required(self).tag = "Err" THEN check_required(self)
    ELSE IF check_default(self).tag = "Err" THEN check_default(self)
    ELSE Ok("unit")

validate(self) ==
    IF reject_self_references_in_docs(self.docs).tag = "Err"
    THEN reject_self_references_in_docs(self.docs)
    ELSE IF check_default(self).tag = "Err" THEN check_default(self)
    ELSE IF check_required(self).tag = "Err" THEN check_required(self)
    ELSE Ok("unit")

Field_new(org, attrs, ident, ty) ==
    LET docs == FilterDocs(attrs)
        params == FieldParams_from_attributes(attrs)
    IN  IF params.tag = "Err" THEN params
        ELSE LET me == Field(org, ident, docs, ty, unwrap(params.val))
                 checked == validate(me)
             IN  IF checked.tag = "Err" THEN checked ELSE Ok(me)

\* mutant: the `required` override is not consulted
as_optional_without_override(self) ==
    IF is_some(option_type_param(self.ty)) THEN option_type_param(self.ty)
    ELSE IF is_bool(self.ty) \/ is_some(self.params.default) THEN Some(self.ty)
    ELSE None

as_optional(self) ==
    IF is_some(self.params.required) THEN None
    ELSE IF is_some(option_type_param(self.ty)) THEN option_type_param(self.ty)
    ELSE IF is_bool(self.ty) \/ is_some(self.params.default) THEN Some(self.ty)
    ELSE None

\* mutant: the Option<...> wrapper is not stripped from the slot's parameter
unset_state_type_unstripped(self) ==
    IF is_some(as_optional(self))
    THEN <<"bon::private::Optional">> \o self.ty
    ELSE <<"bon::private::Required">> \o self.ty

\* mutant: every slot starts as an optional slot
unset_state_type_all_optional(self) ==
    IF is_some(as_optional(self))
    THEN <<"bon::private::Optional">> \o unwrap(as_optional(self))
    ELSE <<"bon::private::Optional">> \o self.ty

unset_state_type(self) ==
    IF is_some(as_optional(self))
    THEN <<"bon::private::Optional">> \o unwrap(as_optional(self))
    ELSE <<"bon::private::Required">> \o self.ty

\* mutant: the setter's parameter type is never wrapped in Option<...>
set_state_type_param_verbatim(self) ==
    IF is_some(as_optional(self))
    THEN unwrap(as_optional(self))
    ELSE self.ty

set_state_type_param(self) ==
    IF is_some(as_optional(self))
    THEN <<"Option">> \o unwrap(as_optional(self))
    ELSE self.ty

set_state_type(self) == <<"bon::private::Set">> \o set_state_type_param(self)

(***************************** translation pass ****************************)

NoCall == [attrs |-> <<>>, ty |-> <<>>, result |-> Ok("no call")]

NoAnswer ==
    [as_optional |-> None, unset_state_type |-> None,
     set_state_type_param |-> None, set_state_type |-> None]

Init ==
    /\ pc = "collect"
    /\ origin \in FieldOrigin
    /\ members = <<>>
    /\ last = NoCall
    /\ slots = <<>>
    /\ probe = None
    /\ answer = NoAnswer

\* Field::new on the next member, with any attribute list and declared
\* type; an Err aborts the declaration and drops the Fields built so far
NewField ==
    /\ pc = "collect"
    /\ Len(members) < MaxMembers
    /\ \E attrs \in AttrLists, ty \in Types :
          LET r == Field_new(origin, attrs, Ident(Len(members) + 1), ty)
          IN  /\ last' = [attrs |-> attrs, ty |-> ty, result |-> r]
              /\ IF r.tag = "Ok"
                 THEN /\ members' = Append(members, unwrap(r.val))
                      /\ pc' = "collect"
                 ELSE /\ members' = <<>>
                      /\ pc' = "aborted"
    /\ UNCHANGED <<origin, slots, probe, answer>>

\* the generated builder starts with every slot at its unset marker type
StartBuilder ==
    /\ pc = "collect"
    /\ slots' = [i \in 1..Len(members) |-> unset_state_type(members[i])]
    /\ pc' = "building"
    /\ UNCHANGED <<origin, members, last, probe, answer>>

\* member i's setter moves its slot to the set marker type
Setter(i) ==
    /\ pc = "building"
    /\ slots[i] = unset_state_type(members[i])
    /\ slots' = [slots EXCEPT ![i] = set_state_type(members[i])]
    /\ UNCHANGED <<pc, origin, members, last, probe, answer>>

\* a slot type the finishing function accepts: bon::private::Required<T>
\* is the only marker that cannot be turned into a value
IntoSet(slot) == Head(slot) # "bon::private::Required"

FinishPermitted == \A i \in 1..Len(slots) : IntoSet(slots[i])

Finish ==
    /\ pc = "building"
    /\ FinishPermitted
    /\ pc' = "finished"
    /\ UNCHANGED <<origin, members, last, slots, probe, answer>>

Next ==
    \/ NewField
    \/ StartBuilder
    \/ \E i \in 1..Len(members) : Setter(i)
    \/ Finish

Spec == Init /\ [][Next]_vars

(***************************** derivers on any record *********************)

IntoValues == {None, Some(StrictBool(TRUE)), Some(StrictBool(FALSE))}

DefaultValues == {None, Some(None), Some(Some("2 + 2"))}

RequiredValues == {None, Some("Flag")}

\* every Field record, whether or not validate accepts it
FieldRecords ==
    {Field(o, Ident(1), <<DocAttr("text")>>, ty, FieldParams(i, d, r)) :
        o \in FieldOrigin, ty \in Types,
        i \in IntoValues, d \in DefaultValues, r \in RequiredValues}

InitPure ==
    /\ pc = "probe"
    /\ origin \in FieldOrigin
    /\ members = <<>>
    /\ last = NoCall
    /\ slots = <<>>
    /\ probe \in {Some(f) : f \in {g \in FieldRecords : g.origin = origin}}
    /\ answer = NoAnswer

CallAsOptional ==
    /\ pc = "probe"
    /\ answer.as_optional = None
    /\ answer' = [answer EXCEPT !.as_optional = Some(as_optional(unwrap(probe)))]
    /\ UNCHANGED <<pc, origin, members, last, slots, probe>>

CallUnsetStateType ==
    /\ pc = "probe"
    /\ answer.unset_state_type = None
    /\ answer' = [answer EXCEPT
                      !.unset_state_type = Some(unset_state_type(unwrap(probe)))]
    /\ UNCHANGED <<pc, origin, members, last, slots, probe>>

CallSetStateTypeParam ==
    /\ pc = "probe"
    /\ answer.set_state_type_param = None
    /\ answer' = [answer EXCEPT
                      !.set_state_type_param = Some(set_state_type_param(unwrap(probe)))]
    /\ UNCHANGED <<pc, origin, members, last, slots, probe>>

CallSetStateType ==
    /\ pc = "probe"
    /\ answer.set_state_type = None
    /\ answer' = [answer EXCEPT
                      !.set_state_type = Some(set_state_type(unwrap(probe)))]
    /\ UNCHANGED <<pc, origin, members, last, slots, probe>>

NextPure ==
    \/ CallAsOptional
    \/ CallUnsetStateType
    \/ CallSetStateTypeParam
    \/ CallSetStateType

SpecPure == InitPure /\ [][NextPure]_vars

(***************************** properties **********************************)

OptionalMarker == "bon::private::Optional"

RequiredMarker == "bon::private::Required"

SetMarker == "bon::private::Set"

\* the annotations written on the member of the last Field::new call
LastInto == MetaOf(last.attrs, "into")

LastDefault == MetaOf(last.attrs, "default")

LastRequired == MetaOf(last.attrs, "required")

\* the last call's doc comment is harmless and its annotations parse
LastParses ==
    /\ last # NoCall
    /\ \A i \in 1..Len(last.attrs) :
          last.attrs[i].kind = "doc" => last.attrs[i].meta.value = "text"
    /\ LastInto # MetaNameValue("true")
    /\ LastDefault # MetaList

LastDefaultGiven == LastDefault.shape \in {"Path", "NameValue"}

LastRequiredGiven == LastRequired # Absent

OnlyDiag(kind, span, arg) == last.result = Err(<<Diag(kind, span, arg)>>)

\* C1: as_optional returns none when `required` is present whatever the
\* declared type; otherwise the inner type parameter of an Option<...>
\* declared type; otherwise the declared type itself when it is bool or a
\* `default` is present; otherwise none.
C1_AsOptional ==
    (is_some(probe) /\ is_some(answer.as_optional)) =>
        LET f == unwrap(probe)
            r == unwrap(answer.as_optional)
        IN  IF f.params.required # None THEN r = None
            ELSE IF f.ty[1] = "Option"
                 THEN /\ Len(r) = 1
                      /\ <<"Option">> \o r[1] = f.ty
            ELSE IF f.ty = <<"bool">> \/ f.params.default # None
                 THEN r = <<f.ty>>
            ELSE r = None

\* C1 witness: as_optional has answered none for an Option<...> member that
\* carries `required`
C1_Witness ==
    /\ is_some(probe)
    /\ unwrap(probe).ty[1] = "Option"
    /\ unwrap(probe).params.required # None
    /\ answer.as_optional = Some(None)

\* C2: the unset marker type is Optional<representative> when as_optional
\* returns a representative type and Required<declared type> otherwise; the
\* set parameter type is Option<representative> when optional and the
\* declared type otherwise; the set marker type is Set<set parameter type>.
C2_MarkerTypes ==
    (/\ is_some(probe)
     /\ is_some(answer.as_optional)
     /\ is_some(answer.unset_state_type)
     /\ is_some(answer.set_state_type_param)
     /\ is_some(answer.set_state_type)) =>
        LET f == unwrap(probe)
            rep == unwrap(answer.as_optional)
            unset == unwrap(answer.unset_state_type)
            param == unwrap(answer.set_state_type_param)
            set == unwrap(answer.set_state_type)
        IN  /\ unset = IF rep # None THEN <<OptionalMarker>> \o rep[1]
                       ELSE <<RequiredMarker>> \o f.ty
            /\ param = IF rep # None THEN <<"Option">> \o rep[1] ELSE f.ty
            /\ set = <<SetMarker>> \o param
            /\ (f.ty = <<"u32">> /\ f.params.default = None /\ f.params.required = None)
                  => (unset = <<RequiredMarker, "u32">> /\ set = <<SetMarker, "u32">>)
            /\ (f.ty = <<"u32">> /\ f.params.default # None /\ f.params.required = None)
                  => param = <<"Option", "u32">>
            /\ (f.ty = <<"Option", "u32">> /\ f.params.required = None)
                  => param = <<"Option", "u32">>

\* C2 witness: all three artifacts are derived for `x: u32` with
\* `default = 2 + 2`, and the set parameter type is Option<u32>
C2_Witness ==
    /\ is_some(probe)
    /\ unwrap(probe).ty = <<"u32">>
    /\ unwrap(probe).params.default = Some(Some("2 + 2"))
    /\ unwrap(probe).params.required = None
    /\ answer.unset_state_type = Some(<<OptionalMarker, "u32">>)
    /\ answer.set_state_type_param = Some(<<"Option", "u32">>)
    /\ answer.set_state_type = Some(<<SetMarker, "Option", "u32">>)

\* C3: a bool member with both `required` and `default` fails with the
\* RequiredDefaultConflict diagnostic anchored at `required`.
C3_RequiredDefaultConflict ==
    (/\ LastParses
     /\ last.ty = <<"bool">>
     /\ LastRequiredGiven
     /\ LastDefaultGiven) =>
        OnlyDiag("RequiredDefaultConflict", "required", "-")

\* C4: an Option<...> member with `required`, with or without `default`,
\* never becomes a Member: it fails with RequiredOnOptionalWrapper anchored
\* at `required`, before any classification of the member takes place.
C4_RequiredOnOptionalWrapper ==
    (/\ LastParses
     /\ last.ty[1] = "Option"
     /\ LastRequiredGiven) =>
        /\ OnlyDiag("RequiredOnOptionalWrapper", "required", "-")
        /\ members = <<>>
        /\ slots = <<>>

\* C5: `default` (bare or with an expression) without `required` on an
\* Option<...> or bool member fails with RedundantDefault anchored at
\* `default`, naming `Option` respectively `bool`; on any other declared
\* type the same annotation produces no diagnostic.
C5_RedundantDefault ==
    (/\ LastParses
     /\ LastDefaultGiven
     /\ ~LastRequiredGiven) =>
        IF last.ty[1] = "Option"
        THEN OnlyDiag("RedundantDefault", "default", "Option")
        ELSE IF last.ty = <<"bool">>
        THEN OnlyDiag("RedundantDefault", "default", "bool")
        ELSE /\ last.result.tag = "Ok"
             /\ last.result.errs = <<>>

\* C5 witness: `n: Option<u32>` with a bare `default` has been rejected
C5_Witness ==
    /\ last # NoCall
    /\ last.ty = <<"Option", "u32">>
    /\ LastDefault = MetaPath
    /\ ~LastRequiredGiven
    /\ OnlyDiag("RedundantDefault", "default", "Option")

\* a parameter record and declared type that break one of invariants 1-4
ViolatesInvariants(ty, default, required) ==
    \/ default /\ (ty[1] = "Option" \/ ty = <<"bool">>)
    \/ required /\ ty[1] = "Option"
    \/ required /\ ty # <<"bool">> /\ ty[1] # "Option"
    \/ required /\ default

OnlyMarkerSwapped(unset, set) ==
    /\ Len(unset) = Len(set)
    /\ unset[1] # set[1]
    /\ \A k \in 2..Len(unset) : unset[k] = set[k]

\* C7 as stated: whenever a setter moves a slot from the unset to the set
\* marker type, the two types differ in exactly one structural position,
\* the outer marker, with the type parameter identical in both.
C7_OneStructuralPosition ==
    [][\A i \in (DOMAIN slots) \cap (DOMAIN slots') :
          slots[i] # slots'[i] => OnlyMarkerSwapped(slots[i], slots'[i])]_vars

\* C7 amended: for a member classified required the unset and the set
\* marker type differ in the outer marker only; for a member classified
\* optional the parameter of the set marker type is Option<...> around the
\* parameter of the unset marker type.
C7_MarkerSwapAmended ==
    [][\A i \in (DOMAIN slots) \cap (DOMAIN slots') :
          slots[i] # slots'[i] =>
              /\ slots'[i][1] = SetMarker
              /\ IF slots[i][1] = RequiredMarker
                 THEN Tail(slots'[i]) = Tail(slots[i])
                 ELSE /\ slots[i][1] = OptionalMarker
                      /\ Tail(slots'[i]) = <<"Option">> \o Tail(slots[i])]_vars

\* C7 witness: the setter of an Option<u32> member has been called
C7_Witness ==
    /\ pc = "building"
    /\ \E i \in 1..Len(slots) :
          /\ members[i].ty = <<"Option", "u32">>
          /\ slots[i] = <<SetMarker, "Option", "u32">>

\* the member is required: `required` is written, or its type is neither
\* Option<...> nor bool and it has no `default`
ClassifiedRequired(f) ==
    \/ f.params.required # None
    \/ /\ f.ty[1] # "Option"
       /\ f.ty # <<"bool">>
       /\ f.params.default = None

\* C8: after any sequence of setter calls the finishing operation is
\* permitted exactly when every member classified required has its slot in
\* the set state; members classified optional may still be unset.
C8_FinishNeedsRequired ==
    /\ pc = "building" =>
          (FinishPermitted <=>
              \A i \in 1..Len(members) :
                  ClassifiedRequired(members[i]) => slots[i][1] = SetMarker)
    /\ pc = "finished" =>
          \A i \in 1..Len(members) :
              ClassifiedRequired(members[i]) => slots[i][1] = SetMarker

\* C8 witness: the builder has finished with a `required` bool member set
\* and an optional member still unset
C8_Witness ==
    /\ pc = "finished"
    /\ \E i, j \in 1..Len(members) :
          /\ members[i].ty = <<"bool">>
          /\ members[i].params.required # None
          /\ slots[i] = <<SetMarker, "bool">>
          /\ ~ClassifiedRequired(members[j])
          /\ slots[j][1] = OptionalMarker

\* C9: the strict boolean is true for the bare marker and false for
\* `= false`; `= true` is rejected with RedundantTrueLiteral, so no
\* value-assignment form ever yields true.
C9_StrictBool ==
    last # NoCall =>
        /\ (LastInto = MetaPath /\ last.result.tag = "Ok")
              => unwrap(last.result.val).params.into = <<[value |-> TRUE]>>
        /\ (LastInto = MetaNameValue("false") /\ last.result.tag = "Ok")
              => unwrap(last.result.val).params.into = <<[value |-> FALSE]>>
        /\ LastInto = MetaNameValue("true")
              => /\ last.result.tag = "Err"
                 /\ \E k \in 1..Len(last.result.errs) :
                       last.result.errs[k].kind = "RedundantTrueLiteral"
        /\ (LastInto.shape = "NameValue" /\ last.result.tag = "Ok")
              => unwrap(last.result.val).params.into # <<[value |-> TRUE]>>

\* C9 witness: `into = true` has been rejected
C9_Witness ==
    /\ last # NoCall
    /\ LastInto = MetaNameValue("true")
    /\ last.result.tag = "Err"
    /\ last.result.errs[1].kind = "RedundantTrueLiteral"

\* C10: Field::validate never reports RequiredDefaultConflict: whenever
\* both `required` and `default` are present an earlier check fires,
\* RedundantDefault on Option<...> and bool, RequiredOnNonBoolean otherwise.
C10_ConflictUnreachable ==
    last # NoCall =>
        /\ \A k \in 1..Len(last.result.errs) :
              last.result.errs[k].kind # "RequiredDefaultConflict"
        /\ (LastParses /\ LastRequiredGiven /\ LastDefaultGiven) =>
              IF last.ty[1] = "Option" \/ last.ty = <<"bool">>
              THEN last.result.errs[1].kind = "RedundantDefault"
              ELSE last.result.errs[1].kind = "RequiredOnNonBoolean"

\* C10 witness: a bool member with `required` and `default` has been
\* rejected as RedundantDefault
C10_Witness ==
    /\ LastParses
    /\ last.ty = <<"bool">>
    /\ LastRequiredGiven
    /\ LastDefaultGiven
    /\ OnlyDiag("RedundantDefault", "default", "bool")

====
